---- MODULE Spec2Model ----
(***************************************************************************)
(* Covenant: multi-party contract service (src/src/server/node/covenant.js) *)
(* with the remote object-store client bdo-js (src/unnamed/part_000).      *)
(*                                                                         *)
(* Request handlers are async functions: a handler runs until an await and *)
(* other handlers may run in between.  Each handler is a small process     *)
(* (slot) whose steps are cut at the awaits that touch shared state: the   *)
(* local files, the key registry, the process-wide signing identity        *)
(* (sessionless.getKeys) and the remote store.                             *)
(*                                                                         *)
(* Strings that get concatenated into signed messages are sequences of     *)
(* tokens; "+" is \o and the empty sequence is the falsy/missing string.   *)
(* Other strings are TLA+ strings with "" for null/undefined/empty.        *)
(***************************************************************************)
EXTENDS Integers, Sequences, FiniteSets, TLC

VARIABLES
    contracts,          \* data/contracts/<uuid>.json : uuid -> document
    remote,             \* the remote object store: sequence of records
    keyFiles,           \* data/keys/<pubKey>.json : set of contract keys
    keyCache,           \* keyCache Map (keys only)
    mapFile,            \* keys/contract-pubkey-mapping.json : uuid -> key
    contractPubKeyMap,  \* contractPubKeyMap Map : uuid -> key
    identity,           \* sessionless.getKeys: 0 = the ambient identity
    now,                \* wall clock (new Date().getTime())
    nextUuid,           \* sessionless.generateUUID() for contracts
    nextKey,            \* sessionless.generateKeys: next fresh key
    req,                \* the request handlers in flight
    resp,               \* the response last sent, with its request
    lastCall,           \* the remote call signed last: whose key it was for, who signed
    faults,             \* failures still to come of remote calls the remote could have served
    ioFaults,           \* failures still to come of writes and unlinks in the data directory
    \* History, kept to state properties over several requests:
    replaced,           \* uuids whose step list an update has replaced
    seen,               \* <<uuid, stepId>> some GET answer showed completed
    acked,              \* <<uuid, stepId, pubKey>> of the sign-steps answered 200
    mintedFor,          \* contract key -> the uuid it was minted for
    deleted             \* uuids whose DELETE was answered 200

vars == <<contracts, remote, keyFiles, keyCache, mapFile, contractPubKeyMap,
          identity, now, nextUuid, nextKey, req, resp, lastCall, faults, ioFaults,
          replaced, seen, acked, mintedFor, deleted>>

----------------------------------------------------------------------------
(* Bounds *)

MaxWrites == 4          \* requests admitted to the write phase
MaxContracts == 1       \* contract uuids ever generated
MaxFaults == 1          \* remote calls that fail for no reason of the caller's
MaxInFlight == 2        \* handlers that may be in flight together
MaxConcWrites == 3      \* write-phase requests when requests overlap
MaxConcContracts == 2   \* contract uuids generated when requests overlap
MaxWriteReadFaults == 4 \* remote failures when writes and reads both meet them
MaxFaultWrites == 3     \* write-phase requests against the failing remote
MaxIoFaults == 2        \* writes and unlinks in the data directory that fail
MaxIoWrites == 3        \* write-phase requests against the failing data directory
MaxRaceWrites == 2       \* write-phase requests that reads race with
MaxSpellWrites == 3      \* write-phase requests that arrive as spells
MaxSignWrites == 4       \* write-phase requests when the sign-step checks are told apart
MaxCreatorWrites == 4    \* write-phase requests on the contract of an outside creator
MaxLiveWrites == 3       \* write-phase requests against the remote that hangs

Slots == 1..MaxInFlight

----------------------------------------------------------------------------
(* Strings and signatures *)

Str(s) == <<s>>
Uuid(n) == <<"c", ToString(n)>>
UserUUID(p) == <<"u", p>>

\* sessionless.sign with the private key of `key` over `msg`
Sign(key, msg) == <<key, msg>>

\* sessionless.verifySignature(signature, message, pubKey)
verifySignature(signature, message, pubKey) ==
    signature = <<pubKey, message>>

Callers == {"Pa", "Pb", "Pc"}
Timestamps == {Str("t1"), Str("t2")}

----------------------------------------------------------------------------
(* Requests: the JSON body and the :uuid path parameter *)

NoFields == {}

Request(op, uuid, pubKey, timestamp, userUUID, signature) ==
    [op |-> op, uuid |-> uuid, pubKey |-> pubKey, timestamp |-> timestamp,
     userUUID |-> userUUID, signature |-> signature,
     title |-> "", description |-> "", participants |-> <<>>, steps |-> <<>>, status |-> "",
     fields |-> NoFields, stepId |-> <<>>, stepSignature |-> <<>>,
     participant |-> ""]

NoRequest == Request("none", <<>>, "", <<>>, <<>>, <<>>)

\* The message a well-behaved client signs (README "Message Construction")
AuthMessage(timestamp, userUUID, uuid) == timestamp \o userUUID \o uuid

OtherKey(p) == IF p = "Pc" THEN "Pa" ELSE "Pc"

AuthKinds == {"ok", "nosig", "nots", "nouser", "nopub", "forged", "wrongmsg"}

\* A request of caller p on contract uuid (<<>> for create) whose
\* authentication fields are well formed ("ok") or broken in one way.
Authed(op, uuid, p, ts, kind) ==
    LET uu == UserUUID(p)
        good == Sign(p, AuthMessage(ts, uu, uuid))
    IN  Request(op, uuid,
                IF kind = "nopub" THEN "" ELSE p,
                IF kind = "nots" THEN <<>> ELSE ts,
                IF kind = "nouser" THEN <<>> ELSE uu,
                CASE kind = "nosig" -> <<>>
                  [] kind = "forged" -> Sign(OtherKey(p), AuthMessage(ts, uu, uuid))
                  [] kind = "wrongmsg" ->
                        Sign(p, IF uuid = <<>> THEN AuthMessage(ts, uu, Str("x"))
                                ELSE AuthMessage(ts, uu, <<>>))
                  [] OTHER -> good)

----------------------------------------------------------------------------
(* Contract documents *)

RawStep(description, magicSpell) ==
    [id |-> <<>>, description |-> description, magicSpell |-> magicSpell]

StepId(i) == <<"s", ToString(i)>>

NoSignatures == <<>>    \* the empty object {}

Step(id, description, magicSpell, order, signatures, completed, completedAt) ==
    [id |-> id, description |-> description, magicSpell |-> magicSpell,
     order |-> order, signatures |-> signatures, completed |-> completed,
     completedAt |-> completedAt]

SignatureRecord(signature, timestamp, pubKey, message, signedAt) ==
    [signature |-> signature, timestamp |-> timestamp, pubKey |-> pubKey,
     message |-> message, signed_at |-> signedAt]

Range(s) == {s[i] : i \in DOMAIN s}

\* signatures[p] === null
IsNull(signatures, p) == p \in DOMAIN signatures /\ signatures[p] = <<>>

\* signatures[p] is a signature record
IsSigned(signatures, p) == p \in DOMAIN signatures /\ signatures[p] # <<>>

Put(f, k, v) == [x \in DOMAIN f \cup {k} |-> IF x = k THEN v ELSE f[x]]

\* A removal that leaves the entry in place.
Remove_Nothing(f, k) == f

Remove(f, k) == [x \in DOMAIN f \ {k} |-> f[x]]

Contract(uuid, title, description, participants, steps, createdAt, creator) ==
    [uuid |-> uuid, title |-> title, description |-> description,
     participants |-> participants, steps |-> steps,
     createdAt |-> createdAt, updatedAt |-> createdAt,
     status |-> "active", creator |-> creator,
     pubKey |-> 0, bdoUuid |-> 0, scgBdoUuid |-> 0]

\* validateContract, `Step ${i + 1} must have a description`
StepError(i) == "Step " \o ToString(i) \o " must have a description"

\* A validation that accepts an empty step list.
validateContract_NoSteps(contract) ==
    IF contract.title = "" THEN "Contract must have a title"
    ELSE IF Len(contract.participants) < 2
         THEN "Contract must have at least 2 participants"
    ELSE IF \E i \in DOMAIN contract.steps : contract.steps[i].description = ""
         THEN StepError(CHOOSE i \in DOMAIN contract.steps :
                            /\ contract.steps[i].description = ""
                            /\ \A j \in 1..(i - 1) : contract.steps[j].description # "")
    ELSE ""

\* A validation that looks at the participants before the title.
validateContract_ParticipantsFirst(contract) ==
    IF Len(contract.participants) < 2
         THEN "Contract must have at least 2 participants"
    ELSE IF contract.title = "" THEN "Contract must have a title"
    ELSE IF Len(contract.steps) = 0
         THEN "Contract must have at least one step"
    ELSE IF \E i \in DOMAIN contract.steps : contract.steps[i].description = ""
         THEN StepError(CHOOSE i \in DOMAIN contract.steps :
                            /\ contract.steps[i].description = ""
                            /\ \A j \in 1..(i - 1) : contract.steps[j].description # "")
    ELSE ""

\* validateContract: null ("") or the first error
validateContract(contract) ==
    IF contract.title = "" THEN "Contract must have a title"
    ELSE IF Len(contract.participants) < 2
         THEN "Contract must have at least 2 participants"
    ELSE IF Len(contract.steps) = 0
         THEN "Contract must have at least one step"
    ELSE IF \E i \in DOMAIN contract.steps : contract.steps[i].description = ""
         THEN StepError(CHOOSE i \in DOMAIN contract.steps :
                            /\ contract.steps[i].description = ""
                            /\ \A j \in 1..(i - 1) : contract.steps[j].description # "")
    ELSE ""

\* A gate that verifies over timestamp + userUUID alone, whatever the
\* operation: what the gate would be without the contract uuid in the message.
verifySessionlessAuth_NoContract(request, contractUUID) ==
    IF \/ request.signature = <<>> \/ request.timestamp = <<>>
       \/ request.userUUID = <<>> \/ request.pubKey = ""
    THEN "Missing authentication fields: signature, timestamp, userUUID, and pubKey required"
    ELSE IF ~verifySignature(request.signature,
                             request.timestamp \o request.userUUID,
                             request.pubKey)
    THEN "Invalid signature"
    ELSE ""

\* verifySessionlessAuth: null ("") when the request authenticates, else the
\* error of the 401 it sends.  contractUUID is <<>> for create.
verifySessionlessAuth(request, contractUUID) ==
    IF \/ request.signature = <<>> \/ request.timestamp = <<>>
       \/ request.userUUID = <<>> \/ request.pubKey = ""
    THEN "Missing authentication fields: signature, timestamp, userUUID, and pubKey required"
    ELSE IF ~verifySignature(request.signature,
                             request.timestamp \o request.userUUID \o contractUUID,
                             request.pubKey)
    THEN "Invalid signature"
    ELSE ""

\* A build that numbers the steps from 1.
BuildSteps_FromOne(steps) ==
    [i \in DOMAIN steps |->
        Step(IF steps[i].id # <<>> THEN steps[i].id ELSE StepId(i),
             steps[i].description, steps[i].magicSpell, i,
             NoSignatures, FALSE, 0)]

\* POST /contract, "Build contract object": the steps of the new contract
BuildSteps(steps) ==
    [i \in DOMAIN steps |->
        Step(IF steps[i].id # <<>> THEN steps[i].id ELSE StepId(i),
             steps[i].description, steps[i].magicSpell, i - 1,
             NoSignatures, FALSE, 0)]

\* An initialisation that gives only the first participant an entry.
InitSignatures_First(contract) ==
    [contract EXCEPT !.steps =
        [i \in DOMAIN contract.steps |->
            [contract.steps[i] EXCEPT !.signatures =
                [p \in {contract.participants[1]} |-> <<>>]]]]

\* POST /contract, "Initialize signatures object for each step"
InitSignatures(contract) ==
    [contract EXCEPT !.steps =
        [i \in DOMAIN contract.steps |->
            [contract.steps[i] EXCEPT !.signatures =
                [p \in Range(contract.participants) |-> <<>>]]]]

----------------------------------------------------------------------------
(* The requests clients send *)

NoUuid == <<>>
Uuids == {Uuid(n) : n \in 1..MaxContracts}
Participants == <<"Pa", "Pb">>

CreateBody(request, title, participants, steps) ==
    [request EXCEPT !.title = title, !.participants = participants, !.steps = steps]

CreateRequests ==
    {CreateBody(Authed("create", NoUuid, "Pc", Str("t1"), "ok"), "T", Participants,
                <<RawStep("d", "")>>)}
    \cup
    {CreateBody(Authed("create", NoUuid, "Pa", Str("t1"), "ok"), b[1], b[2], b[3]) :
        b \in {<<"T", Participants, <<RawStep("d", "spell"), RawStep("d", "")>> >>,
               <<"T", Participants, <<RawStep("d", "")>> >>,
               <<"T", <<"Pa", "Pa">>, <<RawStep("d", "")>> >>,
               <<"", Participants, <<RawStep("d", "")>> >>,
               <<"T", <<"Pa">>, <<RawStep("d", "")>> >>,
               <<"T", Participants, <<>> >>,
               <<"T", Participants, <<RawStep("", "")>> >>,
               <<"", <<"Pa">>, <<>> >>}}
    \cup
    {CreateBody(Authed("create", NoUuid, "Pa", Str("t1"), kind), "T", Participants,
                <<RawStep("d", "")>>) :
        kind \in AuthKinds \ {"ok"}}

\* Step lists a caller may put in an update: any JSON is accepted as steps
ResetStep == Step(StepId(1), "d", "", 0, NoSignatures, FALSE, 0)
ForgedStep == Step(StepId(1), "d", "", 0, [p \in Range(Participants) |-> <<>>], TRUE, 0)

\* A body that edits title and status and also carries participants
EditedFields == {"title", "status", "participants"}
OtherParticipants == <<"Pc", "Pa">>

BlankStep == Step(StepId(1), "", "", 0, NoSignatures, FALSE, 0)

UpdateBodies ==
    {[fields |-> EditedFields, title |-> "T2", steps |-> <<>>, status |-> "done"],
     [fields |-> {"title"}, title |-> "", steps |-> <<>>, status |-> ""],
     [fields |-> {"steps"}, title |-> "", steps |-> <<>>, status |-> ""],
     [fields |-> {"steps"}, title |-> "", steps |-> <<ResetStep>>, status |-> ""],
     [fields |-> {"steps"}, title |-> "", steps |-> <<ResetStep, BlankStep>>, status |-> ""],
     [fields |-> {"steps"}, title |-> "", steps |-> <<ForgedStep>>, status |-> ""]}

UpdateRequests ==
    {[Authed("update", uuid, p, Str("t1"), "ok") EXCEPT
        !.fields = b.fields, !.title = b.title, !.steps = b.steps, !.status = b.status,
        !.participants = IF "participants" \in b.fields THEN OtherParticipants ELSE <<>>] :
        uuid \in Uuids, p \in Callers, b \in UpdateBodies}
    \cup
    {[Authed("update", uuid, p, Str("t1"), kind) EXCEPT
        !.fields = {"title"}, !.title = "T2"] :
        uuid \in Uuids, p \in {"Pa"}, kind \in AuthKinds \ {"ok"}}

\* The message of the step signature (README "Step auth")
StepMessage(timestamp, userUUID, uuid, stepId) == timestamp \o userUUID \o uuid \o stepId

StepSigKinds == {"ok", "nosig", "forged", "wrongmsg"}

StepSignatureOf(p, ts, uuid, stepId, kind) ==
    CASE kind = "nosig" -> <<>>
      [] kind = "forged" -> Sign(IF p = "Pa" THEN "Pb" ELSE "Pa",
                                 StepMessage(ts, UserUUID(p), uuid, stepId))
      [] kind = "wrongmsg" -> Sign(p, AuthMessage(ts, UserUUID(p), uuid))
      [] OTHER -> Sign(p, StepMessage(ts, UserUUID(p), uuid, stepId))

SignBody(request, stepId, kind) ==
    [request EXCEPT
        !.stepId = stepId,
        !.stepSignature = StepSignatureOf(request.pubKey, request.timestamp,
                                          request.uuid, stepId, kind)]

SignRequests ==
    {SignBody(Authed("sign", uuid, p, Str("t1"), "ok"), b[1], b[2]) :
        uuid \in Uuids, p \in Callers,
        b \in ({StepId(1)} \X StepSigKinds)
              \cup ({StepId(9)} \X {"ok", "forged"})
              \cup {<< <<>>, "ok">>}}
    \cup
    {SignBody(Authed("sign", uuid, "Pa", Str("t2"), "ok"), StepId(1), "ok") :
        uuid \in Uuids}
    \cup
    {SignBody([Authed("sign", uuid, "Pa", Str("t1"), kind) EXCEPT !.pubKey = "Pa"],
              StepId(1), "ok") :
        uuid \in Uuids, kind \in AuthKinds \ {"ok", "nopub"}}
    \cup
    {Authed("sign", uuid, "Pa", Str("t1"), "nopub") : uuid \in Uuids}

DeleteRequests ==
    {Authed("delete", uuid, p, Str("t1"), "ok") : uuid \in Uuids, p \in Callers}
    \cup
    {Authed("delete", uuid, "Pa", Str("t1"), kind) :
        uuid \in Uuids, kind \in AuthKinds \ {"ok"}}

GetRequests == {Request("get", uuid, "", <<>>, <<>>, <<>>) : uuid \in Uuids}

\* GET /contracts and GET /contracts?participant=<key>
ListRequests ==
    {[Request("list", <<>>, "", <<>>, <<>>, <<>>) EXCEPT !.participant = p] :
        p \in {"", "Pb", "Pc"}}

Requests == CreateRequests \cup UpdateRequests \cup SignRequests
            \cup DeleteRequests \cup GetRequests \cup ListRequests

----------------------------------------------------------------------------
(* Spells and their resolvers *)

SpellNames == {"covenantContract", "covenantContractUpdate", "covenantContractSign",
               "covenantContractDelete"}

Spell(name, components, timestamp, casterSignature) ==
    [spell |-> name, components |-> components, timestamp |-> timestamp,
     casterSignature |-> casterSignature]

\* !v for a component that is a list, an id or a signature: it is absent
Not(v) == v = <<>>

\* !v for a component that is a text: it is absent or empty
NotText(v) == v = ""

\* A conversion that gives the same text for every timestamp.
String_Undefined(v) == Str("undefined")

\* String(v): the text of v; String(undefined) is the text "undefined"
String(v) == IF v = <<>> THEN Str("undefined") ELSE v

\* The body every resolver sends: signature, timestamp, userUUID, pubKey
SpellAuth(spell, op, uuid) ==
    Request(op, uuid, spell.components.pubKey, String(spell.timestamp),
            spell.components.userUUID, spell.casterSignature)

\* MAGIC.covenantContract: <<>> when a required component is missing, else
\* the POST /contract it sends
covenantContract(spell) ==
    LET c == spell.components IN
    IF NotText(c.title) \/ Not(c.participants) \/ Not(c.steps) \/ Not(c.userUUID)
       \/ NotText(c.pubKey)
    THEN <<>>
    ELSE <<[SpellAuth(spell, "create", <<>>) EXCEPT
              !.title = c.title, !.description = c.description,
              !.participants = c.participants, !.steps = c.steps]>>

\* MAGIC.covenantContractUpdate: the optional fields go into the PUT when
\* they are not undefined
covenantContractUpdate(spell) ==
    LET c == spell.components
        given == c.fields \cap {"title", "description", "steps", "status"}
    IN  IF Not(c.uuid) \/ Not(c.userUUID) \/ NotText(c.pubKey)
        THEN <<>>
        ELSE <<[SpellAuth(spell, "update", c.uuid) EXCEPT
                  !.fields = given,
                  !.title = IF "title" \in given THEN c.title ELSE @,
                  !.description = IF "description" \in given THEN c.description ELSE @,
                  !.steps = IF "steps" \in given THEN c.steps ELSE @,
                  !.status = IF "status" \in given THEN c.status ELSE @]>>

\* MAGIC.covenantContractSign
covenantContractSign(spell) ==
    LET c == spell.components IN
    IF Not(c.uuid) \/ Not(c.stepId) \/ Not(c.stepSignature) \/ Not(c.userUUID)
       \/ NotText(c.pubKey)
    THEN <<>>
    ELSE <<[SpellAuth(spell, "sign", c.uuid) EXCEPT
              !.stepId = c.stepId, !.stepSignature = c.stepSignature]>>

\* MAGIC.covenantContractDelete
covenantContractDelete(spell) ==
    LET c == spell.components IN
    IF Not(c.uuid) \/ Not(c.userUUID) \/ NotText(c.pubKey)
    THEN <<>>
    ELSE <<SpellAuth(spell, "delete", c.uuid)>>

\* MAGIC[spellName](spell)
MAGIC(spell) ==
    CASE spell.spell = "covenantContract" -> covenantContract(spell)
      [] spell.spell = "covenantContractUpdate" -> covenantContractUpdate(spell)
      [] spell.spell = "covenantContractSign" -> covenantContractSign(spell)
      [] OTHER -> covenantContractDelete(spell)

\* The spell a caster makes of a request: the body's fields as components,
\* the timestamp and the endpoint signature beside them
ComponentNames == {"uuid", "userUUID", "pubKey", "title", "description", "participants",
                   "steps", "status", "fields", "stepId", "stepSignature"}

SpellName(op) ==
    CASE op = "create" -> "covenantContract"
      [] op = "update" -> "covenantContractUpdate"
      [] op = "sign" -> "covenantContractSign"
      [] OTHER -> "covenantContractDelete"

SpellOf(request) ==
    Spell(SpellName(request.op), [f \in ComponentNames |-> request[f]],
          request.timestamp, request.signature)

----------------------------------------------------------------------------
(* Handlers in flight and responses *)

IdleSlot ==
    [pc |-> "idle", request |-> NoRequest, contract |-> <<>>, localContract |-> <<>>,
     contractKeys |-> 0, originalGetKeys |-> 0, signer |-> 0,
     mappings |-> <<>>, bdoUuid |-> 0, attempts |-> 0, storeFailed |-> FALSE,
     spell |-> <<>>]

Response(code, error, request) ==
    [code |-> code, error |-> error, request |-> request, data |-> <<>>,
     stepCompleted |-> FALSE, magicTriggered |-> FALSE, spell |-> <<>>]

NoResponse == Response(0, "", NoRequest)

\* What the client gets.  A direct request gets the handler's response.  A
\* spell's request was sent by the resolver, which tells success by
\* response.ok; the spell route answers 200 on success and 900 otherwise.
Reply(spell, response) ==
    IF spell = <<>> THEN response
    ELSE [response EXCEPT !.code = IF response.code = 200 THEN 200 ELSE 900,
                          !.spell = spell]

\* res.status(code).json(...) and the handler returns
Respond(s, response) ==
    /\ resp' = Reply(req[s].spell, response)
    /\ req' = [req EXCEPT ![s] = IdleSlot]

\* The handler awaits: it goes on later from slot.pc
Goto(s, slot) ==
    /\ req' = [req EXCEPT ![s] = slot]
    /\ resp' = resp

NoCall == [uuid |-> NoUuid, op |-> "none", key |-> 0, signer |-> 0]

\* What a remote call may come to.  "ok": served.  "reject": the remote
\* answers with an error body (the client library does not throw).  "throw":
\* the call throws (network error, unparsable answer).  A call the remote
\* cannot serve (a record it does not hold, a signer who is not the owner)
\* is rejected; a call it can serve fails only while faults remain.
RemoteOutcomes(servable) ==
    (IF servable THEN {"ok"} ELSE {"reject"})
    \cup (IF faults > 0 THEN {"reject", "throw"} ELSE {})

Fault(servable, outcome) ==
    faults' = IF outcome = "ok" \/ (~servable /\ outcome = "reject")
              THEN faults ELSE faults - 1

\* What fs.writeFile or fs.unlink may come to: done, or an I/O error
LocalOutcomes == {"ok"} \cup (IF ioFaults > 0 THEN {"fail"} ELSE {})

LocalFault(outcome) == ioFaults' = IF outcome = "ok" THEN ioFaults ELSE ioFaults - 1

\* The error of each handler's catch block
HandlerError(op) ==
    CASE op = "create" -> "Failed to create contract"
      [] op = "update" -> "Failed to update contract"
      [] op = "sign" -> "Failed to add signature"
      [] op = "delete" -> "Failed to delete contract"
      [] OTHER -> "Failed to retrieve contract"

\* A catch block that reports success.
Failed_Ok(request) == Response(200, "", request)

\* What a handler's catch block answers: status 500
Failed(request) == Response(500, HandlerError(request.op), request)

\* The contract files an fs.writeFile has opened and not finished: writeFile
\* truncates the file and writes in place, so a reader finds part of a document
Writing == {req[s].contract[1].uuid : s \in {t \in Slots : req[t].pc = "written"}}

Init ==
    /\ contracts = <<>>
    /\ remote = <<>>
    /\ keyFiles = {}
    /\ keyCache = {}
    /\ mapFile = <<>>
    /\ contractPubKeyMap = <<>>
    /\ identity = 0
    /\ now = 0
    /\ nextUuid = 1
    /\ nextKey = 1
    /\ req = [s \in Slots |-> IdleSlot]
    /\ resp = NoResponse
    /\ lastCall = NoCall
    /\ faults = MaxFaults
    /\ replaced = {}
    /\ seen = {}
    /\ acked = {}
    /\ mintedFor = <<>>
    /\ ioFaults = 0
    /\ deleted = {}

----------------------------------------------------------------------------
(* Entry of a handler: the Authentication Gate *)

registry == <<keyFiles, keyCache, mapFile, contractPubKeyMap>>
history == <<replaced, seen, acked, mintedFor, deleted>>

Mutating(request) == request.op \notin {"get", "list"}

\* The mutating requests in flight that have not reached their write phase
Pending ==
    {s \in Slots : req[s].pc \in {"load", "fetch", "handle"} /\ Mutating(req[s].request)}

\* The request enters its handler.  GET is not authenticated; the others
\* pass through verifySessionlessAuth first, which answers 401 itself on
\* failure.
Arrive(s, request, spell) ==
    LET err == IF Mutating(request)
               THEN verifySessionlessAuth(request, request.uuid)
               ELSE ""
    IN  IF err # ""
        THEN /\ resp' = Reply(spell, Response(401, err, request))
             /\ req' = [req EXCEPT ![s] = IdleSlot]
        ELSE Goto(s, [IdleSlot EXCEPT
                        !.pc = IF request.op \in {"create", "list"}
                              THEN "handle" ELSE "load",
                        !.request = request,
                        !.spell = spell])

\* A request arrives.
Receive(s, requests, maxWrites, maxContracts) ==
    /\ req[s].pc = "idle"
    /\ resp = NoResponse
    /\ \E request \in requests :
        /\ Mutating(request) => now + Cardinality(Pending) < maxWrites
        /\ request.op = "create" => nextUuid <= maxContracts
        /\ Arrive(s, request, <<>>)
    /\ UNCHANGED <<contracts, remote, registry, identity, now, nextUuid, nextKey,
                   lastCall, faults, ioFaults, history>>

\* POST /magic/spell/:spellName.  An unknown name is answered 404.  The
\* resolver answers success: false itself when a required component is
\* missing; otherwise it sends its request to the service, where it arrives
\* as any request does.
Cast(s, spells, maxWrites, maxContracts) ==
    /\ req[s].pc = "idle"
    /\ resp = NoResponse
    /\ \E spell \in spells :
        IF spell.spell \notin SpellNames
        THEN /\ resp' = [Response(404, "spell not found", NoRequest) EXCEPT
                            !.spell = <<spell>>]
             /\ req' = req
        ELSE IF MAGIC(spell) = <<>>
        THEN /\ resp' = Reply(<<spell>>,
                              Response(0, "Missing required spell components", NoRequest))
             /\ req' = req
        ELSE LET request == MAGIC(spell)[1] IN
             /\ now + Cardinality(Pending) < maxWrites
             /\ request.op = "create" => nextUuid <= maxContracts
             /\ Arrive(s, request, <<spell>>)
    /\ UNCHANGED <<contracts, remote, registry, identity, now, nextUuid, nextKey,
                   lastCall, faults, ioFaults, history>>

\* The client reads the response.
Deliver ==
    /\ resp # NoResponse
    /\ resp' = NoResponse
    /\ UNCHANGED <<contracts, remote, registry, identity, now, nextUuid, nextKey,
                   req, lastCall, faults, ioFaults, history>>

----------------------------------------------------------------------------
(* loadContractFromBDO *)

\* getContractPubKey(uuid): the key, or 0 when it throws
getContractPubKey(uuid) ==
    IF uuid \in DOMAIN contractPubKeyMap THEN contractPubKeyMap[uuid]
    ELSE IF uuid \in DOMAIN mapFile THEN mapFile[uuid]
    ELSE 0

\* getKeys(pubKey) finds the pair in the cache or on disk
HasKeys(pubKey) == pubKey \in keyCache \/ pubKey \in keyFiles

Call(uuid, op, key, signer) == [uuid |-> uuid, op |-> op, key |-> key, signer |-> signer]

\* Local read, key lookup, identity install and the signed getBDO request.
\* While the file is being written the read yields part of a document:
\* JSON.parse throws, the catch of loadContractFromBDO reads the file again
\* and throws again, and the handler's catch answers 500.
LoadLocal(s) ==
    /\ req[s].pc = "load"
    /\ resp = NoResponse
    /\ LET uuid == req[s].request.uuid
           local == IF uuid \in DOMAIN contracts THEN <<contracts[uuid]>> ELSE <<>>
           key == getContractPubKey(uuid)
       IN  IF uuid \in Writing
           THEN /\ Respond(s, Failed(req[s].request))
                /\ UNCHANGED <<contractPubKeyMap, keyCache, identity, lastCall>>
           ELSE IF local = <<>> \/ local[1].bdoUuid = 0 \/ key = 0
           THEN /\ Goto(s, [req[s] EXCEPT !.pc = "handle", !.contract = local])
                /\ UNCHANGED <<contractPubKeyMap, keyCache, identity, lastCall>>
           ELSE /\ contractPubKeyMap' = Put(contractPubKeyMap, uuid, key)
                /\ IF ~HasKeys(key)
                   THEN /\ Goto(s, [req[s] EXCEPT !.pc = "handle", !.contract = local])
                        /\ UNCHANGED <<keyCache, identity, lastCall>>
                   ELSE /\ keyCache' = keyCache \cup {key}
                        /\ identity' = key
                        /\ lastCall' = Call(uuid, "getBDO", key, key)
                        /\ Goto(s, [req[s] EXCEPT !.pc = "fetch",
                                      !.localContract = local,
                                      !.contractKeys = key,
                                      !.signer = key,
                                      !.originalGetKeys = identity])
    /\ UNCHANGED <<contracts, remote, keyFiles, mapFile, now, nextUuid, nextKey,
                   faults, ioFaults, history>>

\* A remote that serves a live record to whoever asks for it.
Owns_Anyone(key, bdoUuid) ==
    /\ bdoUuid \in DOMAIN remote
    /\ remote[bdoUuid].alive

\* The remote serves a request for a record only when its owner signed it
Owns(key, bdoUuid) ==
    /\ bdoUuid \in DOMAIN remote
    /\ remote[bdoUuid].alive
    /\ remote[bdoUuid].owner = key

\* A read that keeps to the local document whatever the remote answers.
Fetched_Local(outcome, local, bdoUuid) == local

\* bdoResult && bdoResult.bdo ? bdoResult.bdo : localContract; the local
\* document as well when getBDO throws
Fetched(outcome, local, bdoUuid) ==
    IF outcome = "ok" THEN remote[bdoUuid].bdo ELSE local

\* getBDO answers.  Only the success path restores sessionless.getKeys.
Fetch(s) ==
    /\ req[s].pc = "fetch"
    /\ resp = NoResponse
    /\ LET local == req[s].localContract
           bdoUuid == local[1].bdoUuid
           servable == Owns(req[s].signer, bdoUuid)
       IN  \E outcome \in RemoteOutcomes(servable) :
            /\ Fault(servable, outcome)
            /\ identity' = IF outcome = "throw" THEN identity ELSE req[s].originalGetKeys
            /\ Goto(s, [req[s] EXCEPT
                          !.pc = "handle",
                          !.contract = Fetched(outcome, local, bdoUuid)])
    /\ UNCHANGED <<contracts, remote, registry, now, nextUuid, nextKey, lastCall,
                   ioFaults, history>>

----------------------------------------------------------------------------
(* The handlers, after the gate and the load *)

Handling(s, op) ==
    /\ req[s].pc = "handle"
    /\ req[s].request.op = op
    /\ resp = NoResponse

\* The steps of a document that are completed
CompletedSteps(contract) ==
    {contract.steps[i].id : i \in {j \in DOMAIN contract.steps : contract.steps[j].completed}}

\* GET /contract/:uuid
GetContract(s) ==
    /\ Handling(s, "get")
    /\ IF req[s].contract = <<>>
       THEN /\ Respond(s, Response(404, "Contract not found", req[s].request))
            /\ UNCHANGED seen
       ELSE /\ Respond(s, [Response(200, "", req[s].request) EXCEPT !.data = req[s].contract])
            /\ seen' = seen \cup ({req[s].request.uuid} \X CompletedSteps(req[s].contract[1]))
    /\ UNCHANGED <<contracts, remote, registry, identity, now, nextUuid, nextKey,
                   lastCall, faults, ioFaults, replaced, acked, mintedFor,
                   deleted>>

\* A property the object does not have
Undefined == 0

\* The number of an Invalid Date
NaN == -1

\* new Date(v).getTime(): undefined makes an Invalid Date, and so does a
\* string of digits such as the documents' millisecond stamps
DateTime(v) == NaN

\* (a, b) => new Date(b.updatedAt) - new Date(a.updatedAt); Array.prototype.sort
\* takes a NaN result for +0
SortCompare(a, b) ==
    LET x == DateTime(a.updatedAt)
        y == DateTime(b.updatedAt)
    IN  IF x = NaN \/ y = NaN THEN 0 ELSE y - x

\* Array.prototype.sort is stable: x goes before the first element that the
\* comparator puts after it
Insert(sorted, x) ==
    LET later == {i \in DOMAIN sorted : SortCompare(sorted[i], x) > 0}
        at == IF later = {} THEN Len(sorted) + 1
              ELSE CHOOSE i \in later : \A j \in later : i <= j
    IN  SubSeq(sorted, 1, at - 1) \o <<x>> \o SubSeq(sorted, at, Len(sorted))

RECURSIVE Sort(_)
Sort(seq) ==
    IF seq = <<>> THEN <<>>
    ELSE Insert(Sort(SubSeq(seq, 1, Len(seq) - 1)), seq[Len(seq)])

\* The summary of a document.  The documents keep their stamps in createdAt
\* and updatedAt; created_at and updated_at are properties they do not have.
Summary(contract) ==
    [uuid |-> contract.uuid, title |-> contract.title,
     participants |-> contract.participants,
     createdAt |-> Undefined, updatedAt |-> Undefined,
     stepCount |-> Len(contract.steps),
     completedSteps |-> Cardinality({i \in DOMAIN contract.steps :
                                        contract.steps[i].completed}),
     bdoUuid |-> contract.bdoUuid, pubKey |-> contract.pubKey]

\* The orders in which fs.readdir may give the files
Readdir == {f \in [1..Cardinality(DOMAIN contracts) -> DOMAIN contracts] :
                \A uuid \in DOMAIN contracts : \E i \in DOMAIN f : f[i] = uuid}

\* listContracts over the files in the order files.  A file that is being
\* written does not parse: the catch gives the empty list.
listContracts(files) ==
    IF Writing # {} THEN <<>>
    ELSE Sort([i \in DOMAIN files |-> Summary(contracts[files[i]])])

Filter(summaries, participant) ==
    LET kept == {i \in DOMAIN summaries : participant \in Range(summaries[i].participants)}
        F[i \in 0..Len(summaries)] ==
            IF i = 0 THEN <<>>
            ELSE IF i \in kept THEN Append(F[i - 1], summaries[i]) ELSE F[i - 1]
    IN  F[Len(summaries)]

\* GET /contracts
ListContracts(s) ==
    /\ Handling(s, "list")
    /\ \E files \in Readdir :
        LET request == req[s].request
            all == listContracts(files)
            data == IF request.participant # "" THEN Filter(all, request.participant)
                    ELSE all
        IN  Respond(s, [Response(200, "", request) EXCEPT !.data = data])
    /\ UNCHANGED <<contracts, remote, registry, identity, now, nextUuid, nextKey,
                   lastCall, faults, ioFaults, history>>

\* POST /contract: build, validate, initialise the signature maps
CreateContract(s) ==
    /\ Handling(s, "create")
    /\ LET request == req[s].request
           contract == Contract(Uuid(nextUuid), request.title, request.description,
                                request.participants, BuildSteps(request.steps),
                                now + 1, request.pubKey)
           validationError == validateContract(contract)
       IN  IF validationError # ""
           THEN /\ Respond(s, Response(400, validationError, request))
                /\ UNCHANGED <<now, nextUuid>>
           ELSE /\ Goto(s, [req[s] EXCEPT !.pc = "mint",
                                           !.contract = <<InitSignatures(contract)>>])
                /\ now' = now + 1
                /\ nextUuid' = nextUuid + 1
    /\ UNCHANGED <<contracts, remote, registry, identity, nextKey, lastCall, faults,
                   ioFaults, history>>

\* An update that lets the body replace the participants as well.
allowedFields_Participants == {"title", "description", "steps", "status", "participants"}

\* PUT /contract/:uuid, allowedFields
allowedFields == {"title", "description", "steps", "status"}

\* PUT /contract/:uuid, "Update allowed fields"
Overlay(contract, updates) ==
    [field \in DOMAIN contract |->
        IF field \in allowedFields /\ field \in updates.fields
        THEN updates[field]
        ELSE contract[field]]

\* A handler without the authorization check.
IsAuthorized_Anyone(contract, pubKey) == TRUE

\* PUT /contract/:uuid, "creator or participant"
IsAuthorized(contract, pubKey) ==
    \/ contract.creator = pubKey
    \/ pubKey \in Range(contract.participants)

\* PUT /contract/:uuid
UpdateContract(s) ==
    /\ Handling(s, "update")
    /\ LET request == req[s].request IN
       IF req[s].contract = <<>>
       THEN /\ Respond(s, Response(404, "Contract not found", request))
            /\ UNCHANGED now
       ELSE LET contract == req[s].contract[1]
                updated == [Overlay(contract, request) EXCEPT !.updatedAt = now + 1]
                validationError == validateContract(updated)
            IN  IF ~IsAuthorized(contract, request.pubKey)
                THEN /\ Respond(s, Response(403, "Not authorized to update this contract",
                                            request))
                     /\ UNCHANGED now
                ELSE IF validationError # ""
                THEN /\ Respond(s, Response(400, validationError, request))
                     /\ UNCHANGED now
                ELSE /\ Goto(s, [req[s] EXCEPT !.pc = "mint", !.contract = <<updated>>])
                     /\ now' = now + 1
    /\ UNCHANGED <<contracts, remote, registry, identity, nextUuid, nextKey, lastCall,
                   faults, ioFaults, history>>

\* contract.steps.find(s => s.id === stepId): its index, or 0
FindStep(contract, stepId) ==
    IF \E i \in DOMAIN contract.steps : contract.steps[i].id = stepId
    THEN CHOOSE i \in DOMAIN contract.steps :
            /\ contract.steps[i].id = stepId
            /\ \A j \in DOMAIN contract.steps : contract.steps[j].id = stepId => i <= j
    ELSE 0

\* A handler without the participant check.
IsParticipant_Anyone(contract, pubKey) == TRUE

\* PUT /contract/:uuid/sign, "Verify participant is part of contract"
IsParticipant(contract, pubKey) == pubKey \in Range(contract.participants)

\* PUT /contract/:uuid/sign, stepMessage
stepMessageOf(request) ==
    request.timestamp \o request.userUUID \o request.uuid \o request.stepId

\* A handler that verifies the step signature under any key.
StepVerified_AnyKey(request) ==
    \E p \in Callers : verifySignature(request.stepSignature, stepMessageOf(request), p)

\* PUT /contract/:uuid/sign, "Verify the step signature"
StepVerified(request) ==
    verifySignature(request.stepSignature, stepMessageOf(request), request.pubKey)

\* A completion test satisfied by one signature.
AllSigned_Some(contract, signatures) ==
    \E p \in Range(contract.participants) : ~IsNull(signatures, p)

\* contract.participants.every(p => step.signatures[p] !== null)
AllSigned(contract, signatures) ==
    \A p \in Range(contract.participants) : ~IsNull(signatures, p)

\* A handler that keeps the record of a participant who has signed before.
ApplySignature_KeepFirst(contract, i, request, time) ==
    LET step == contract.steps[i]
        signatures == IF IsSigned(step.signatures, request.pubKey)
                      THEN step.signatures
                      ELSE Put(step.signatures, request.pubKey,
                               <<SignatureRecord(request.stepSignature, request.timestamp,
                                                 request.pubKey, stepMessageOf(request), time)>>)
        completes == AllSigned(contract, signatures) /\ ~step.completed
        signed == [step EXCEPT
                     !.signatures = signatures,
                     !.completed = IF completes THEN TRUE ELSE @,
                     !.completedAt = IF completes THEN time ELSE @]
    IN  [contract EXCEPT !.steps[i] = signed, !.updatedAt = time]

\* PUT /contract/:uuid/sign, "Add signature" to "Check if step is now completed"
ApplySignature(contract, i, request, time) ==
    LET step == contract.steps[i]
        signatures == Put(step.signatures, request.pubKey,
                          <<SignatureRecord(request.stepSignature, request.timestamp,
                                            request.pubKey, stepMessageOf(request), time)>>)
        completes == AllSigned(contract, signatures) /\ ~step.completed
        signed == [step EXCEPT
                     !.signatures = signatures,
                     !.completed = IF completes THEN TRUE ELSE @,
                     !.completedAt = IF completes THEN time ELSE @]
    IN  [contract EXCEPT !.steps[i] = signed, !.updatedAt = time]

\* A handler that looks the step up before it checks the participant.
SignRejection_LookupFirst(contract, request) ==
    IF request.stepId = <<>> \/ request.stepSignature = <<>> THEN 400
    ELSE IF FindStep(contract, request.stepId) = 0 THEN 404
    ELSE IF ~IsParticipant(contract, request.pubKey) THEN 403
    ELSE IF ~StepVerified(request) THEN 401
    ELSE 0

\* PUT /contract/:uuid/sign: what the handler answers before it writes, or
\* 0 when every check passes
SignRejection(contract, request) ==
    IF ~IsParticipant(contract, request.pubKey) THEN 403
    ELSE IF request.stepId = <<>> \/ request.stepSignature = <<>> THEN 400
    ELSE IF FindStep(contract, request.stepId) = 0 THEN 404
    ELSE IF ~StepVerified(request) THEN 401
    ELSE 0

SignError(code) ==
    CASE code = 403 -> "User not authorized for this contract"
      [] code = 400 -> "stepId and stepSignature are required"
      [] code = 404 -> "Step not found"
      [] OTHER -> "Invalid step signature"

\* PUT /contract/:uuid/sign
SignStep(s) ==
    /\ Handling(s, "sign")
    /\ LET request == req[s].request IN
       IF req[s].contract = <<>>
       THEN /\ Respond(s, Response(404, "Contract not found", request))
            /\ UNCHANGED now
       ELSE LET contract == req[s].contract[1]
                code == SignRejection(contract, request)
            IN  IF code # 0
                THEN /\ Respond(s, Response(code, SignError(code), request))
                     /\ UNCHANGED now
                ELSE /\ Goto(s, [req[s] EXCEPT
                                   !.pc = "mint",
                                   !.contract = <<ApplySignature(contract,
                                                     FindStep(contract, request.stepId),
                                                     request, now + 1)>>])
                     /\ now' = now + 1
    /\ UNCHANGED <<contracts, remote, registry, identity, nextUuid, nextKey, lastCall,
                   faults, ioFaults, history>>

\* A handler that lets participants delete as well.
IsCreator_OrParticipant(contract, pubKey) ==
    contract.creator = pubKey \/ pubKey \in Range(contract.participants)

\* DELETE /contract/:uuid, "authorized to delete this contract (creator only)"
IsCreator(contract, pubKey) == contract.creator = pubKey

\* DELETE /contract/:uuid up to the signed deleteUser request.  deleteUser is
\* signed with whatever identity is installed: the handler installs none.
DeleteContract(s) ==
    /\ Handling(s, "delete")
    /\ LET request == req[s].request IN
       IF req[s].contract = <<>>
       THEN /\ Respond(s, Response(404, "Contract not found", request))
            /\ UNCHANGED lastCall
       ELSE LET contract == req[s].contract[1] IN
            IF ~IsCreator(contract, request.pubKey)
            THEN /\ Respond(s, Response(403,
                              "Only the contract creator can delete this contract", request))
                 /\ UNCHANGED lastCall
            ELSE /\ Goto(s, [req[s] EXCEPT !.pc = "unlink", !.signer = identity,
                                            !.bdoUuid = contract.bdoUuid])
                 /\ lastCall' = IF contract.bdoUuid # 0
                                THEN Call(request.uuid, "deleteUser", contract.pubKey,
                                          identity)
                                ELSE lastCall
    /\ UNCHANGED <<contracts, remote, registry, identity, now, nextUuid, nextKey,
                   faults, ioFaults, history>>

\* fs.unlink of a stored contract's file
unlink_Keep(uuid) == contracts

unlink(uuid) == Remove(contracts, uuid)

\* deleteUser answers (any failure is logged and ignored), then fs.unlink of
\* the local file, which throws when the file is gone or the unlink fails.
DeleteLocal(s) ==
    /\ req[s].pc = "unlink"
    /\ resp = NoResponse
    /\ LET request == req[s].request
           bdoUuid == req[s].bdoUuid
           servable == Owns(req[s].signer, bdoUuid)
       IN  /\ IF bdoUuid = 0
              THEN UNCHANGED <<remote, faults>>
              ELSE \E outcome \in RemoteOutcomes(servable) :
                    /\ Fault(servable, outcome)
                    /\ remote' = IF outcome = "ok"
                                 THEN [remote EXCEPT ![bdoUuid].alive = FALSE]
                                 ELSE remote
           /\ \E outcome \in LocalOutcomes :
                /\ LocalFault(outcome)
                /\ IF request.uuid \in DOMAIN contracts /\ outcome = "ok"
                   THEN /\ contracts' = unlink(request.uuid)
                        /\ deleted' = deleted \cup {request.uuid}
                        /\ Respond(s, Response(200, "", request))
                   ELSE /\ Respond(s, Failed(request))
                        /\ UNCHANGED <<contracts, deleted>>
    /\ UNCHANGED <<registry, identity, now, nextUuid, nextKey, lastCall,
                   replaced, seen, acked, mintedFor>>

----------------------------------------------------------------------------
(* saveContractToBDO *)

\* An answer that reports the effect as triggered whenever the step is completed.
Saved_AlwaysTriggered(request, contract) ==
    IF request.op = "sign"
    THEN LET step == contract.steps[FindStep(contract, request.stepId)] IN
         [Response(200, "", request) EXCEPT
            !.stepCompleted = step.completed,
            !.magicTriggered = step.completed]
    ELSE [Response(200, "", request) EXCEPT !.data = <<contract>>]

\* What the handler answers once saveContractToBDO has returned
Saved(request, contract) ==
    IF request.op = "sign"
    THEN LET step == contract.steps[FindStep(contract, request.stepId)] IN
         [Response(200, "", request) EXCEPT
            !.stepCompleted = step.completed,
            !.magicTriggered = step.completed /\ step.magicSpell # ""]
    ELSE [Response(200, "", request) EXCEPT !.data = <<contract>>]

\* saveContract: the whole document written to the contract's local file
saveContract_Skip(contract) == contracts

saveContract(contract) == Put(contracts, contract.uuid, contract)

\* saveContract(contract) is called: fs.writeFile opens the contract's file.
\* attempts: 2 from the end of the try block (the outer catch calls
\* saveContract again), 1 from the outer catch.
BeginWrite(s, contract, attempts) ==
    Goto(s, [req[s] EXCEPT !.pc = "written", !.contract = <<contract>>,
                            !.attempts = attempts])

\* fs.writeFile finishes and the handler answers; or it fails, and either the
\* outer catch of saveContractToBDO calls saveContract again or the handler's
\* catch answers 500.
FinishWrite(s) ==
    /\ req[s].pc = "written"
    /\ resp = NoResponse
    /\ LET request == req[s].request
           contract == req[s].contract[1]
       IN  \E outcome \in LocalOutcomes :
            /\ LocalFault(outcome)
            /\ IF outcome = "ok"
               THEN /\ contracts' = saveContract(contract)
                    /\ Respond(s, Saved(request, contract))
                    /\ replaced' = IF request.op = "update" /\ "steps" \in request.fields
                                   THEN replaced \cup {contract.uuid} ELSE replaced
                    /\ acked' = IF request.op = "sign"
                                THEN acked \cup {<<request.uuid, request.stepId,
                                                   request.pubKey>>}
                                ELSE acked
               ELSE /\ IF req[s].attempts > 1
                       THEN Goto(s, [req[s] EXCEPT !.attempts = @ - 1,
                                                   !.storeFailed = TRUE])
                       ELSE Respond(s, Failed(request))
                    /\ UNCHANGED <<contracts, replaced, acked>>
    /\ UNCHANGED <<remote, registry, identity, now, nextUuid, nextKey, lastCall, faults,
                   seen, mintedFor, deleted>>

\* contract.pubKey = contractKeys.pubKey, before the first remote call
Stamp_None(contract, key) == contract

Stamp(contract, key) == [contract EXCEPT !.pubKey = key]

\* sessionless.generateKeys(saveKeys, ...): a fresh pair, its file and cache
\* entry; then saveContractPubKeyMapping reads the mapping file.  When the
\* key file cannot be written generateKeys throws and the outer catch saves
\* the contract as it is.
Mint(s) ==
    /\ req[s].pc = "mint"
    /\ resp = NoResponse
    /\ nextKey' = nextKey + 1
    /\ mintedFor' = Put(mintedFor, nextKey, req[s].contract[1].uuid)
    /\ \E outcome \in LocalOutcomes :
        /\ LocalFault(outcome)
        /\ IF outcome = "ok"
           THEN /\ keyFiles' = keyFiles \cup {nextKey}
                /\ keyCache' = keyCache \cup {nextKey}
                /\ Goto(s, [req[s] EXCEPT !.pc = "bind", !.contractKeys = nextKey,
                                           !.mappings = mapFile])
           ELSE /\ BeginWrite(s, req[s].contract[1], 1)
                /\ UNCHANGED <<keyFiles, keyCache>>
    /\ UNCHANGED <<contracts, remote, mapFile, contractPubKeyMap, identity, now,
                   nextUuid, lastCall, faults, replaced, seen, acked, deleted>>

\* saveContractPubKeyMapping sets the cache entry and writes the mapping it
\* read plus this entry; the contract is stamped with the key, the key is
\* installed as the signing identity and bdo.createUser is called (it awaits
\* before it signs).  When the mapping file cannot be written the outer catch
\* saves the contract as it is.
Bind(s) ==
    /\ req[s].pc = "bind"
    /\ resp = NoResponse
    /\ LET contract == req[s].contract[1]
           key == req[s].contractKeys
       IN  /\ contractPubKeyMap' = Put(contractPubKeyMap, contract.uuid, key)
           /\ \E outcome \in LocalOutcomes :
                /\ LocalFault(outcome)
                /\ IF outcome = "ok"
                   THEN /\ mapFile' = Put(req[s].mappings, contract.uuid, key)
                        /\ identity' = key
                        /\ Goto(s, [req[s] EXCEPT !.pc = "createUser",
                                                   !.contract = <<Stamp(contract, key)>>,
                                                   !.originalGetKeys = identity])
                   ELSE /\ BeginWrite(s, contract, 1)
                        /\ UNCHANGED <<mapFile, identity>>
    /\ UNCHANGED <<contracts, remote, keyFiles, keyCache, now, nextUuid, nextKey,
                   lastCall, faults, history>>

Record(owner, hash, bdo) == [owner |-> owner, hash |-> hash, bdo |-> bdo, alive |-> TRUE]

\* bdo.createUser signs with the installed identity and the remote answers.
\*   ok:     a new record owned by the signer; getKeys restored; bdoUuid set;
\*           the scgContent createUser is called under the contract key.
\*   reject: the answer carries no uuid, bdoUuid is undefined; as ok otherwise.
\*   throw:  the catch block reads originalGetKeys, which is scoped to the try
\*           block: a ReferenceError, caught by the outer catch, which saves
\*           the contract locally.  getKeys is not restored.
CreateUser(s) ==
    /\ req[s].pc = "createUser"
    /\ resp = NoResponse
    /\ LET contract == req[s].contract[1]
           key == req[s].contractKeys
       IN  /\ lastCall' = Call(contract.uuid, "createUser", key, identity)
           /\ \E outcome \in RemoteOutcomes(identity = key) :
                /\ Fault(identity = key, outcome)
                /\ IF outcome = "throw"
                   THEN /\ BeginWrite(s, contract, 1)
                        /\ UNCHANGED <<remote, identity>>
                   ELSE LET bdoUuid == IF outcome = "ok" THEN Len(remote) + 1 ELSE 0 IN
                        /\ remote' = IF outcome = "ok"
                                     THEN Append(remote, Record(identity, contract.uuid,
                                                                <<contract>>))
                                     ELSE remote
                        /\ identity' = key
                        /\ Goto(s, [req[s] EXCEPT
                                      !.pc = "createScg",
                                      !.bdoUuid = bdoUuid,
                                      !.contract = <<[contract EXCEPT !.bdoUuid = bdoUuid]>>])
    /\ UNCHANGED <<contracts, registry, now, nextUuid, nextKey, ioFaults, history>>

\* The scgContent createUser signs and answers; its catch restores nothing.
\* Then bdo.updateBDO is called under the contract key: it signs at once.
CreateScg(s) ==
    /\ req[s].pc = "createScg"
    /\ resp = NoResponse
    /\ LET contract == req[s].contract[1]
           key == req[s].contractKeys
       IN  \E outcome \in RemoteOutcomes(identity = key) :
            /\ Fault(identity = key, outcome)
            /\ LET restored == IF outcome = "throw" THEN identity
                               ELSE req[s].originalGetKeys
                   scg == CASE outcome = "ok" -> 1
                            [] outcome = "reject" -> 0
                            [] OTHER -> contract.scgBdoUuid
               IN  /\ identity' = key
                   /\ lastCall' = Call(contract.uuid, "updateBDO", key, key)
                   /\ Goto(s, [req[s] EXCEPT
                                 !.pc = "updateBDO",
                                 !.signer = key,
                                 !.originalGetKeys = restored,
                                 !.contract = <<[contract EXCEPT !.scgBdoUuid = scg]>>])
    /\ UNCHANGED <<contracts, remote, registry, now, nextUuid, nextKey, ioFaults, history>>

\* updateBDO answers (its catch restores nothing), then saveContract is called.
UpdateBDO(s) ==
    /\ req[s].pc = "updateBDO"
    /\ resp = NoResponse
    /\ LET contract == req[s].contract[1]
           bdoUuid == req[s].bdoUuid
           servable == Owns(req[s].signer, bdoUuid)
       IN  /\ \E outcome \in RemoteOutcomes(servable) :
                /\ Fault(servable, outcome)
                /\ remote' = IF outcome = "ok"
                             THEN [remote EXCEPT ![bdoUuid].bdo = <<contract>>]
                             ELSE remote
                /\ identity' = IF outcome = "throw" THEN identity
                               ELSE req[s].originalGetKeys
           /\ BeginWrite(s, contract, 2)
    /\ UNCHANGED <<contracts, registry, now, nextUuid, nextKey, lastCall, ioFaults,
                   history>>

----------------------------------------------------------------------------
(* Specifications *)

AllIdle == \A s \in Slots : req[s].pc = "idle"

Handler(s) ==
    \/ LoadLocal(s) \/ Fetch(s)
    \/ GetContract(s) \/ ListContracts(s) \/ CreateContract(s) \/ UpdateContract(s) \/ SignStep(s)
    \/ DeleteContract(s) \/ DeleteLocal(s)
    \/ Mint(s) \/ Bind(s) \/ CreateUser(s) \/ CreateScg(s) \/ UpdateBDO(s)
    \/ FinishWrite(s)

\* One request at a time: a client that waits for each answer
Next == \/ AllIdle /\ Receive(1, Requests, MaxWrites, MaxContracts)
        \/ Deliver
        \/ \E s \in Slots : Handler(s)

Spec == Init /\ [][Next]_vars

\* Requests overlap: handlers interleave at their awaits.  The remote serves
\* every call it can serve.  Creations and signings arrive while other
\* creations and signings are in flight; reads, updates and deletes arrive
\* when the service is idle.
ConcRequests ==
    {r \in Requests :
        /\ Mutating(r) => r.timestamp = Str("t1")
        /\ Mutating(r) => r.signature = Sign(r.pubKey,
                                             AuthMessage(r.timestamp, r.userUUID, r.uuid))
        /\ r.op = "create" => r.pubKey = "Pa" /\ r.participants = Participants
                               /\ validateContract(
                                 Contract(NoUuid, r.title, "", r.participants,
                                          BuildSteps(r.steps), 0, r.pubKey)) = ""
                               /\ r.steps[1].magicSpell = ""
        /\ r.op = "update" => r.pubKey = "Pa" /\ r.fields = EditedFields
        /\ r.op = "sign" => IsParticipant([participants |-> Participants], r.pubKey)
                             /\ r.stepId = StepId(1) /\ StepVerified(r)
        /\ r.op = "delete" => r.pubKey = "Pa"}

ConcInit ==
    /\ contracts = <<>>
    /\ remote = <<>>
    /\ keyFiles = {}
    /\ keyCache = {}
    /\ mapFile = <<>>
    /\ contractPubKeyMap = <<>>
    /\ identity = 0
    /\ now = 0
    /\ nextUuid = 1
    /\ nextKey = 1
    /\ req = [s \in Slots |-> IdleSlot]
    /\ resp = NoResponse
    /\ lastCall = NoCall
    /\ faults = 0
    /\ replaced = {}
    /\ seen = {}
    /\ acked = {}
    /\ mintedFor = <<>>
    /\ ioFaults = 0
    /\ deleted = {}

ConcOthers == {r \in ConcRequests : r.op \in {"sign", "create"}}

\* Every handler in flight serves a creation or a signing
Overlappable ==
    \A s \in Slots : req[s].pc # "idle" => req[s].request.op \in {"sign", "create"}

ConcNext == \/ AllIdle /\ Receive(1, ConcRequests, MaxConcWrites, MaxConcContracts)
            \/ \E s \in Slots \ {1} :
                    Overlappable /\ Receive(s, ConcOthers, MaxConcWrites, MaxConcContracts)
            \/ Deliver
            \/ \E s \in Slots : Handler(s)

ConcSpec == ConcInit /\ [][ConcNext]_vars

\* One well-formed request at a time against a remote that fails several
\* times: failures during a write and during the reads after it.
FaultInit ==
    /\ contracts = <<>>
    /\ remote = <<>>
    /\ keyFiles = {}
    /\ keyCache = {}
    /\ mapFile = <<>>
    /\ contractPubKeyMap = <<>>
    /\ identity = 0
    /\ now = 0
    /\ nextUuid = 1
    /\ nextKey = 1
    /\ req = [s \in Slots |-> IdleSlot]
    /\ resp = NoResponse
    /\ lastCall = NoCall
    /\ faults = MaxWriteReadFaults
    /\ replaced = {}
    /\ seen = {}
    /\ acked = {}
    /\ mintedFor = <<>>
    /\ ioFaults = 0
    /\ deleted = {}

FaultNext == \/ AllIdle /\ Receive(1, ConcRequests, MaxFaultWrites, MaxContracts)
             \/ Deliver
             \/ \E s \in Slots : Handler(s)

FaultSpec == FaultInit /\ [][FaultNext]_vars

\* One well-formed request at a time while writes and unlinks in the data
\* directory fail, and the remote fails as in Spec.
IoInit ==
    /\ contracts = <<>>
    /\ remote = <<>>
    /\ keyFiles = {}
    /\ keyCache = {}
    /\ mapFile = <<>>
    /\ contractPubKeyMap = <<>>
    /\ identity = 0
    /\ now = 0
    /\ nextUuid = 1
    /\ nextKey = 1
    /\ req = [s \in Slots |-> IdleSlot]
    /\ resp = NoResponse
    /\ lastCall = NoCall
    /\ faults = MaxFaults
    /\ ioFaults = MaxIoFaults
    /\ replaced = {}
    /\ seen = {}
    /\ acked = {}
    /\ mintedFor = <<>>
    /\ deleted = {}

IoNext == \/ AllIdle /\ Receive(1, ConcRequests, MaxIoWrites, MaxContracts)
          \/ Deliver
          \/ \E s \in Slots : Handler(s)

IoSpec == IoInit /\ [][IoNext]_vars

\* Reads arrive while a write is in flight.  The remote serves every call it
\* can serve and the data directory does not fail.
RaceNext == \/ AllIdle /\ Receive(1, ConcRequests, MaxRaceWrites, MaxContracts)
            \/ \E s \in Slots \ {1} :
                    Receive(s, GetRequests \cup ListRequests, MaxRaceWrites, MaxContracts)
            \/ Deliver
            \/ \E s \in Slots : Handler(s)

RaceSpec == ConcInit /\ [][RaceNext]_vars

\* The writes arrive as spells, one at a time; the reads arrive directly.
\* Every request of Requests is cast as a spell, the malformed ones and the
\* ones of strangers included.  One caster leaves the timestamp out and signs
\* the text the resolver puts in its place; one spell has a name no resolver
\* has.
UntimedSpell ==
    LET request == CHOOSE r \in ConcRequests : r.op = "create"
    IN  Spell("covenantContract", [f \in ComponentNames |-> request[f]], <<>>,
              Sign(request.pubKey,
                   AuthMessage(Str("undefined"), request.userUUID, request.uuid)))

Spells ==
    {SpellOf(r) : r \in {q \in Requests : Mutating(q)}}
    \cup {UntimedSpell}
    \cup {[UntimedSpell EXCEPT !.spell = "covenantNothing"]}

SpellNext == \/ AllIdle /\ Cast(1, Spells, MaxSpellWrites, MaxContracts)
             \/ AllIdle /\ Receive(1, GetRequests \cup ListRequests, MaxSpellWrites,
                                    MaxContracts)
             \/ Deliver
             \/ \E s \in Slots : Handler(s)

SpellSpec == ConcInit /\ [][SpellNext]_vars

\* One request at a time, the remote and the data directory in order: the
\* well-formed requests, a create whose first step carries a magicSpell, every
\* sign-step of Requests, and sign-steps that name a step the contract does
\* not have and carry no step signature.
MagicRequests ==
    {r \in CreateRequests :
        /\ r.pubKey = "Pa" /\ r.participants = Participants /\ r.title = "T"
        /\ r.signature = Sign(r.pubKey, AuthMessage(r.timestamp, r.userUUID, r.uuid))
        /\ r.steps # <<>> /\ r.steps[1].magicSpell # ""}

UnsignedRequests ==
    {SignBody(Authed("sign", uuid, p, Str("t1"), "ok"), StepId(9), "nosig") :
        uuid \in Uuids, p \in Callers}

SignNext == \/ AllIdle /\ Receive(1, ConcRequests \cup MagicRequests \cup SignRequests
                                      \cup UnsignedRequests,
                                   MaxSignWrites, MaxContracts)
            \/ Deliver
            \/ \E s \in Slots : Handler(s)

SignSpec == ConcInit /\ [][SignNext]_vars

\* One request at a time, the remote and the data directory in order, from
\* any caller: a contract is created by a participant or by a caller who is
\* not among its participants, and the requests that follow are well formed.
CreatorRequests ==
    {r \in Requests :
        /\ Mutating(r) => r.timestamp = Str("t1")
        /\ Mutating(r) => r.signature = Sign(r.pubKey,
                                             AuthMessage(r.timestamp, r.userUUID, r.uuid))
        /\ r.op = "create" => r.participants = Participants /\ r.title = "T"
                               /\ r.steps = <<RawStep("d", "")>>
        /\ r.op = "update" => r.fields = EditedFields
        /\ r.op = "sign" => r.stepId = StepId(1) /\ StepVerified(r)}

CreatorNext == \/ AllIdle /\ Receive(1, CreatorRequests, MaxCreatorWrites, MaxContracts)
               \/ Deliver
               \/ \E s \in Slots : Handler(s)

CreatorSpec == ConcInit /\ [][CreatorNext]_vars

\* The calls of the remote client end in fetch(url, ...) without a timeout
\* or an abort signal, and the handlers await them without a timer: a call
\* the remote never answers is awaited for ever.
RemoteCalls == {"fetch", "createUser", "createScg", "updateBDO"}

Hang(s) ==
    /\ \/ req[s].pc \in RemoteCalls
       \/ req[s].pc = "unlink" /\ req[s].bdoUuid # 0
    /\ resp = NoResponse
    /\ Goto(s, [req[s] EXCEPT !.pc = "awaiting"])
    /\ UNCHANGED <<contracts, remote, registry, identity, now, nextUuid, nextKey,
                   lastCall, faults, ioFaults, history>>

\* One well-formed request at a time against a remote that may leave a call
\* unanswered.  The event loop runs every handler step that can run, and the
\* client reads every response.
LiveNext == \/ AllIdle /\ Receive(1, ConcRequests, MaxLiveWrites, MaxContracts)
            \/ Deliver
            \/ \E s \in Slots : Handler(s)
            \/ \E s \in Slots : Hang(s)

LiveSpec == /\ ConcInit
            /\ [][LiveNext]_vars
            /\ WF_vars(Deliver)
            /\ \A s \in Slots : WF_vars(Handler(s) \/ Hang(s))

----------------------------------------------------------------------------
(* Properties *)

\* The stored contracts whose step list no update has replaced
Kept == DOMAIN contracts \ replaced

StepsOf(u) == {contracts[u].steps[i] : i \in DOMAIN contracts[u].steps}

EverySigned(contract, S) ==
    \A p \in Range(contract.participants) : IsSigned(S.signatures, p)

\* C1: in every reachable state, every step of every stored contract whose
\* step list was never replaced by an update is completed if and only if
\* every participant has a non-null entry in its signature map.
C1_CompletedIffAllSigned ==
    \A u \in Kept : \A S \in StepsOf(u) :
        S.completed <=> EverySigned(contracts[u], S)

\* C1 reached: a stored step that both participants signed and that is
\* completed, next to the answer of the sign-step that completed it.
C1_Witness ==
    /\ resp.code = 200 /\ resp.request.op = "sign" /\ resp.stepCompleted
    /\ \E u \in Kept : \E S \in StepsOf(u) :
        S.completed /\ EverySigned(contracts[u], S)

\* C1 as stated, for every stored contract, updates of the step list included.
C1_AfterAnyUpdate ==
    \A u \in DOMAIN contracts : \A S \in StepsOf(u) :
        S.completed <=> EverySigned(contracts[u], S)

\* C2: in every reachable state, the keys of every signature map of every
\* stored contract whose step list was never replaced by an update are
\* exactly the contract's participants.
C2_KeysAreParticipants ==
    \A u \in Kept : \A S \in StepsOf(u) :
        DOMAIN S.signatures = Range(contracts[u].participants)

\* C2 reached: a stored step signed by one participant and awaiting the other.
C2_Witness ==
    \E u \in Kept : \E S \in StepsOf(u) :
        /\ IsSigned(S.signatures, "Pa")
        /\ IsNull(S.signatures, "Pb")
        /\ DOMAIN S.signatures = Range(contracts[u].participants)

\* C2 as stated, for every stored contract, updates of the step list included.
C2_AfterAnyUpdate ==
    \A u \in DOMAIN contracts : \A S \in StepsOf(u) :
        DOMAIN S.signatures = Range(contracts[u].participants)

\* C3: a read of a contract shows as completed every step that an earlier
\* read of that contract showed as completed.
C3_CompletedStaysCompleted ==
    (resp.code = 200 /\ resp.request.op = "get") =>
        \A o \in seen :
            o[1] = resp.request.uuid =>
                \A i \in DOMAIN resp.data[1].steps :
                    resp.data[1].steps[i].id = o[2] => resp.data[1].steps[i].completed

\* C4: no write changes the public key stamped on a stored contract, nor the
\* key the mapping file binds to a contract uuid.
C4_KeyNeverChanges ==
    [][/\ \A u \in DOMAIN contracts \cap DOMAIN contracts' :
            contracts'[u].pubKey = contracts[u].pubKey
       /\ \A u \in DOMAIN mapFile \cap DOMAIN mapFile' :
            mapFile'[u] = mapFile[u]]_vars

\* C5: when requests overlap, a step of a stored contract for which every
\* participant's sign-step was answered with success holds every
\* participant's signature and is completed.
C5_NoLostSignature ==
    \A u \in Kept : \A S \in StepsOf(u) :
        (\A p \in Range(contracts[u].participants) : <<u, S.id, p>> \in acked)
            => (EverySigned(contracts[u], S) /\ S.completed)

\* C6: when requests overlap, every remote call made for a contract is
\* signed by a key that was minted for that contract.
C6_SignedUnderOwnKey ==
    lastCall.signer # 0 =>
        /\ lastCall.signer \in DOMAIN mintedFor
        /\ mintedFor[lastCall.signer] = lastCall.uuid

\* The handler in slot s takes its step
Acts(s) == req'[s] # req[s]

GateVerifies(request) ==
    verifySignature(request.signature,
                    AuthMessage(request.timestamp, request.userUUID, request.uuid),
                    request.pubKey)

StepSignatureVerifies(request) ==
    verifySignature(request.stepSignature,
                    StepMessage(request.timestamp, request.userUUID, request.uuid,
                                request.stepId),
                    request.pubKey)

\* C7: a sign-step whose caller is not among the participants of the loaded
\* contract is answered 403, and neither store changes.
C7_NonParticipantForbidden ==
    [][\A s \in Slots :
        (/\ Handling(s, "sign")
         /\ req[s].contract # <<>>
         /\ req[s].request.pubKey \notin Range(req[s].contract[1].participants)
         /\ Acts(s))
        => (/\ resp'.code = 403
            /\ resp'.request = req[s].request
            /\ req'[s].pc = "idle"
            /\ UNCHANGED <<contracts, remote>>)]_vars

\* C7 reached: 403 to a caller outside the participants of a stored contract
\* whose endpoint signature and step signature both verify.
C7_Witness ==
    /\ resp.code = 403
    /\ resp.request.op = "sign"
    /\ GateVerifies(resp.request)
    /\ StepSignatureVerifies(resp.request)
    /\ resp.request.uuid \in DOMAIN contracts
    /\ resp.request.pubKey \notin Range(contracts[resp.request.uuid].participants)

C9_CompletedStepRejected ==
    [][\A s \in Slots :
        (/\ Handling(s, "sign")
         /\ req[s].contract # <<>>
         /\ req[s].request.uuid \notin replaced
         /\ \E i \in DOMAIN req[s].contract[1].steps :
              /\ req[s].contract[1].steps[i].id = req[s].request.stepId
              /\ req[s].contract[1].steps[i].completed
         /\ Acts(s))
        => (/\ resp'.code >= 400
            /\ req'[s].pc = "idle"
            /\ UNCHANGED contracts)]_vars

\* The request lacks an authentication field, or its signature does not
\* verify under pubKey over timestamp + userUUID (+ contractUUID)
GateFails(request) ==
    \/ request.signature = <<>>
    \/ request.timestamp = <<>>
    \/ request.userUUID = <<>>
    \/ request.pubKey = ""
    \/ ~GateVerifies(request)

Serving(s, op) ==
    /\ Handling(s, op)
    /\ req[s].request.uuid \in DOMAIN contracts

Stored(s) == contracts[req[s].request.uuid]

\* The live remote records that hold the contract uuid
RecordsOf(uuid) ==
    {i \in DOMAIN remote : remote[i].alive /\ remote[i].hash = uuid}

\* C11: a delete that passed the gate, for a stored contract whose creator is
\* not the caller, is answered 403 and neither the local nor the remote
\* store changes.
C11_DeleteCreatorOnly ==
    [][\A s \in Slots :
        (/\ Serving(s, "delete")
         /\ Stored(s).creator # req[s].request.pubKey
         /\ Acts(s))
        => (/\ resp'.code = 403
            /\ resp'.request = req[s].request
            /\ req'[s].pc = "idle"
            /\ UNCHANGED <<contracts, remote>>)]_vars

\* C11 reached: 403 to a participant who is not the creator, the contract
\* still stored locally and live on the remote.
C11_Witness ==
    /\ resp.code = 403
    /\ resp.request.op = "delete"
    /\ GateVerifies(resp.request)
    /\ resp.request.uuid \in DOMAIN contracts
    /\ resp.request.pubKey \in Range(contracts[resp.request.uuid].participants)
    /\ resp.request.pubKey # contracts[resp.request.uuid].creator
    /\ RecordsOf(resp.request.uuid) # {}

Reports(u) ==
    \A S \in StepsOf(u) :
        S.id = resp.request.stepId =>
            /\ resp.stepCompleted = EverySigned(contracts[u], S)
            /\ resp.magicTriggered = (resp.stepCompleted /\ S.magicSpell # "")

Created == contracts[resp.data[1].uuid]

\* C15: the contract stored by a successful create has, for every step of
\* the request in order, a step with order equal to its index (from 0),
\* completed false and a signature map that maps every participant to null;
\* its status is active and its creator is the caller's public key.
C15_CreatedShape ==
    (resp.code = 200 /\ resp.request.op = "create")
    => /\ resp.data[1].uuid \in DOMAIN contracts
       /\ Created.status = "active"
       /\ Created.creator = resp.request.pubKey
       /\ Created.participants = resp.request.participants
       /\ Len(Created.steps) = Len(resp.request.steps)
       /\ \A i \in DOMAIN Created.steps :
            /\ Created.steps[i].order = i - 1
            /\ Created.steps[i].description = resp.request.steps[i].description
            /\ Created.steps[i].completed = FALSE
            /\ DOMAIN Created.steps[i].signatures = Range(resp.request.participants)
            /\ \A p \in Range(resp.request.participants) :
                    IsNull(Created.steps[i].signatures, p)

\* C15 reached: a create of two steps answered with success, its second step
\* stored with order 1.
C15_Witness ==
    /\ resp.code = 200
    /\ resp.request.op = "create"
    /\ Len(resp.request.steps) = 2
    /\ resp.data[1].uuid \in DOMAIN contracts
    /\ Created.steps[2].order = 1

\* The violations of a create request, in the order title, participants,
\* steps, step descriptions
Violations(request) ==
    <<request.title = "",
      Len(request.participants) < 2,
      Len(request.steps) = 0,
      \E i \in DOMAIN request.steps : request.steps[i].description = "">>

\* The error of the k-th kind of violation
ViolationError(request, k) ==
    CASE k = 1 -> "Contract must have a title"
      [] k = 2 -> "Contract must have at least 2 participants"
      [] k = 3 -> "Contract must have at least one step"
      [] OTHER ->
           LET bad == {i \in DOMAIN request.steps : request.steps[i].description = ""}
               first == CHOOSE i \in bad : \A j \in bad : i <= j
           IN  IF first = 1 THEN "Step 1 must have a description"
               ELSE "Step 2 must have a description"

Violates(request) == \E k \in 1..4 : Violations(request)[k]

FirstViolation(request) ==
    CHOOSE k \in 1..4 :
        Violations(request)[k] /\ \A j \in 1..(k - 1) : ~Violations(request)[j]

\* C16: a create that passed the gate and has an empty title, fewer than 2
\* participants, no steps or a step with an empty description is answered
\* 400 with the error of its first violation; no contract is stored locally
\* or remotely, no key is minted and no mapping is added.
C16_CreateValidation ==
    [][\A s \in Slots :
        (/\ Handling(s, "create")
         /\ Violates(req[s].request)
         /\ Acts(s))
        => (/\ resp'.code = 400
            /\ resp'.error = ViolationError(req[s].request, FirstViolation(req[s].request))
            /\ resp'.request = req[s].request
            /\ req'[s].pc = "idle"
            /\ UNCHANGED <<contracts, remote, registry, nextKey, nextUuid>>)]_vars

\* C16 reached: a create with no title, one participant and no steps is
\* told about the title.
C16_Witness ==
    /\ resp.code = 400
    /\ resp.request.op = "create"
    /\ resp.request.title = ""
    /\ Len(resp.request.participants) < 2
    /\ Len(resp.request.steps) = 0
    /\ resp.error = "Contract must have a title"

\* C17: no stored contract has a participant twice in its participants
\* list, nor an empty participant.
C17_DistinctParticipants ==
    \A u \in DOMAIN contracts :
        LET participants == contracts[u].participants IN
        /\ \A i, j \in DOMAIN participants :
                participants[i] = participants[j] => i = j
        /\ \A i \in DOMAIN participants : participants[i] # ""

\* C18: every stored contract has at least 2 participants and at least 1
\* step; an update by the creator or a participant that supplies an empty
\* step list, or a step without description, is answered 400 and neither
\* store changes.
C18_ShapeKept ==
    [][/\ \A u \in DOMAIN contracts' :
            /\ Len(contracts'[u].participants) >= 2
            /\ Len(contracts'[u].steps) >= 1
       /\ \A s \in Slots :
            (/\ Serving(s, "update")
             /\ \/ Stored(s).creator = req[s].request.pubKey
                \/ req[s].request.pubKey \in Range(Stored(s).participants)
             /\ "steps" \in req[s].request.fields
             /\ \/ req[s].request.steps = <<>>
                \/ \E i \in DOMAIN req[s].request.steps :
                        req[s].request.steps[i].description = ""
             /\ Acts(s))
            => (/\ resp'.code = 400
                /\ resp'.request = req[s].request
                /\ req'[s].pc = "idle"
                /\ UNCHANGED <<contracts, remote>>)]_vars

\* C18 reached: 400 to a participant's update that supplies no steps, the
\* stored contract keeping its steps.
C18_Witness ==
    /\ resp.code = 400
    /\ resp.request.op = "update"
    /\ resp.request.fields = {"steps"}
    /\ resp.request.steps = <<>>
    /\ resp.error = "Contract must have at least one step"
    /\ resp.request.uuid \in DOMAIN contracts
    /\ Len(contracts[resp.request.uuid].steps) >= 1

\* A document without the ids of its remote records: what a read served by
\* the remote and a read served by the local file agree on
Content(contract) == [contract EXCEPT !.bdoUuid = 0, !.scgBdoUuid = 0]

\* The successful answer to a write describes the stored document
WriteStored ==
    LET request == resp.request IN
    /\ request.op \in {"create", "update"} =>
            /\ resp.data[1].uuid \in DOMAIN contracts
            /\ contracts[resp.data[1].uuid] = resp.data[1]
    /\ request.op = "sign" =>
            /\ request.uuid \in DOMAIN contracts
            /\ LET contract == contracts[request.uuid]
                   step == contract.steps[FindStep(contract, request.stepId)]
               IN  /\ IsSigned(step.signatures, request.pubKey)
                   /\ step.signatures[request.pubKey][1].signature = request.stepSignature
                   /\ step.signatures[request.pubKey][1].timestamp = request.timestamp
                   /\ resp.stepCompleted = step.completed

\* C19: whatever the remote store did during the writes and the reads, the
\* document a successful create, update or sign-step answers with is the
\* stored document, and every successful GET returns the stored document
\* (up to the ids of its remote records): a GET with no write in between
\* returns what the last successful write wrote.
C19_ReadAfterWrite ==
    /\ (resp.code = 200 /\ resp.request.op \in {"create", "update", "sign"})
            => WriteStored
    /\ (resp.code = 200 /\ resp.request.op = "get")
            => /\ resp.request.uuid \in DOMAIN contracts
               /\ Content(resp.data[1]) = Content(contracts[resp.request.uuid])

\* C19 reached: a GET answered from the remote record after a write whose
\* remote calls partly failed and a read that failed before.
C19_Witness ==
    /\ resp.code = 200
    /\ resp.request.op = "get"
    /\ faults <= MaxWriteReadFaults - 2
    /\ resp.request.uuid \in DOMAIN contracts
    /\ contracts[resp.request.uuid].updatedAt > contracts[resp.request.uuid].createdAt
    /\ resp.data = <<contracts[resp.request.uuid]>>
    /\ RecordsOf(resp.request.uuid) # {}

\* C20: a well-formed create is answered 200 whatever the remote store does;
\* when nothing of it reached the remote store, the stored document carries
\* the contract key bound to its uuid and no remote record id; and a GET of
\* a stored document without a remote record id is answered 200 with exactly
\* the stored document.
C20_CreateWithoutRemote ==
    LET request == resp.request IN
    /\ (request.op = "create" /\ GateVerifies(request) /\ ~Violates(request))
            => resp.code = 200
    /\ (resp.code = 200 /\ request.op = "create")
            => LET uuid == resp.data[1].uuid IN
               /\ uuid \in DOMAIN contracts
               /\ RecordsOf(uuid) = {} =>
                    /\ contracts[uuid].pubKey # 0
                    /\ contracts[uuid].pubKey = getContractPubKey(uuid)
                    /\ contracts[uuid].bdoUuid = 0
    /\ (/\ request.op = "get"
        /\ resp.code # 0
        /\ request.uuid \in DOMAIN contracts
        /\ contracts[request.uuid].bdoUuid = 0)
            => (resp.code = 200 /\ resp.data = <<contracts[request.uuid]>>)

\* C20 reached: GET answers with the local document of a contract whose
\* creation never reached the remote store.
C20_Witness ==
    /\ resp.code = 200
    /\ resp.request.op = "get"
    /\ resp.request.uuid \in DOMAIN contracts
    /\ RecordsOf(resp.request.uuid) = {}
    /\ contracts[resp.request.uuid].updatedAt = contracts[resp.request.uuid].createdAt
    /\ contracts[resp.request.uuid].pubKey # 0
    /\ contracts[resp.request.uuid].bdoUuid = 0
    /\ resp.data = <<contracts[resp.request.uuid]>>
    /\ faults < MaxFaults

\* The handler in slot s answers its request in this step
Answers(s) == req[s].pc # "idle" /\ req'[s].pc = "idle" /\ resp'.code # 0

\* C24: when a sign-step with valid signatures is answered, for a stored
\* step that is not completed and that the caller signed before under another
\* timestamp, the answer is 200, the caller's entry is the record of this
\* request, the other participants' entries are as before and no step of the
\* contract goes from completed to not completed.
C24_ResignReplaces ==
    [][\A s \in Slots :
        LET request == req[s].request
            uuid == request.uuid
        IN  (/\ Answers(s)
             /\ request.op = "sign"
             /\ uuid \in DOMAIN contracts
             /\ IsParticipant(contracts[uuid], request.pubKey)
             /\ FindStep(contracts[uuid], request.stepId) # 0
             /\ StepVerified(request)
             /\ LET step == contracts[uuid].steps[FindStep(contracts[uuid], request.stepId)]
                IN  /\ ~step.completed
                    /\ IsSigned(step.signatures, request.pubKey)
                    /\ step.signatures[request.pubKey][1].timestamp # request.timestamp)
            => (/\ resp'.code = 200
                /\ uuid \in DOMAIN contracts'
                /\ DOMAIN contracts'[uuid].steps = DOMAIN contracts[uuid].steps
                /\ LET i == FindStep(contracts[uuid], request.stepId)
                       before == contracts[uuid].steps[i].signatures
                       after == contracts'[uuid].steps[i].signatures
                   IN  /\ DOMAIN after = DOMAIN before
                       /\ after[request.pubKey][1].signature = request.stepSignature
                       /\ after[request.pubKey][1].timestamp = request.timestamp
                       /\ \A p \in DOMAIN before \ {request.pubKey} : after[p] = before[p]
                /\ \A j \in DOMAIN contracts[uuid].steps :
                        contracts[uuid].steps[j].completed
                            => contracts'[uuid].steps[j].completed)]_vars

\* C24 reached: Pa's signature under timestamp t2, made by the second write
\* after the creation of a contract that no update has written, is stored in
\* a step that Pb has not signed: the write before it was Pa's first signature.
C24_Witness ==
    /\ resp.code = 200
    /\ resp.request.op = "sign"
    /\ resp.request.pubKey = "Pa"
    /\ resp.request.timestamp = Str("t2")
    /\ ~resp.stepCompleted
    /\ resp.request.uuid \in DOMAIN contracts
    /\ resp.request.uuid \in Kept
    /\ LET contract == contracts[resp.request.uuid]
           step == contract.steps[FindStep(contract, resp.request.stepId)]
       IN  /\ contract.title = "T"
           /\ step.signatures["Pa"][1].timestamp = Str("t2")
           /\ step.signatures["Pa"][1].signed_at = contract.createdAt + 2
           /\ IsNull(step.signatures, "Pb")

\* C26: when no request is being served, every remote call has returned, and
\* the signing identity is the one the service started with: no call, served
\* or failed, leaves a contract's key installed.
C26_IdentityRestored == AllIdle => identity = 0

\* C27: every call to the remote store is signed by the contract key it was
\* made for.
C27_OwnKeySigns == lastCall.op # "none" => lastCall.signer = lastCall.key

\* The handler in slot s has passed the gate, the authorization check and the
\* validation of its create, update, sign-step or delete
Admitted(s) ==
    req[s].pc \in {"mint", "bind", "createUser", "createScg", "updateBDO", "written",
                   "unlink"}

\* The step of slot s leaves the local store as its request asks
StoreDone(s) ==
    IF req[s].request.op = "delete"
    THEN /\ req[s].request.uuid \in DOMAIN contracts
         /\ req[s].request.uuid \notin DOMAIN contracts'
    ELSE /\ req[s].contract[1].uuid \in DOMAIN contracts'
         /\ contracts'[req[s].contract[1].uuid] = req[s].contract[1]

C22_DeletedNotFound ==
    (/\ resp.request.op = "get"
     /\ resp.code # 0
     /\ resp.request.uuid \in deleted)
    => resp.code = 404

\* C22 reached: 404 for a deleted contract whose remote record is alive and
\* whose key binding is still in the mapping file.
C22_Witness ==
    /\ resp.request.op = "get"
    /\ resp.code = 404
    /\ resp.request.uuid \in deleted
    /\ RecordsOf(resp.request.uuid) # {}
    /\ resp.request.uuid \in DOMAIN mapFile
    /\ mapFile[resp.request.uuid] \in keyFiles

\* C23: no step of a delete handler changes the key files or the mapping
\* file, and an admitted delete removes the local document and answers 200
\* whatever the remote deleteUser call comes to.
C23_DeleteFrame ==
    [][\A s \in Slots :
        (req[s].request.op = "delete" /\ Acts(s))
            => (/\ UNCHANGED <<keyFiles, mapFile>>
                /\ (req[s].pc = "unlink" /\ req[s].request.uuid \in DOMAIN contracts)
                        => (/\ req[s].request.uuid \notin DOMAIN contracts'
                            /\ resp'.code = 200))]_vars

\* C23 reached: a delete answered 200 whose deleteUser call was not served,
\* the remote record alive, the key file and the binding in place.
C23_Witness ==
    /\ resp.code = 200
    /\ resp.request.op = "delete"
    /\ resp.request.uuid \notin DOMAIN contracts
    /\ lastCall.op = "deleteUser"
    /\ RecordsOf(resp.request.uuid) # {}
    /\ resp.request.uuid \in DOMAIN mapFile
    /\ mapFile[resp.request.uuid] \in keyFiles

\* C25: every stored contract has an entry in the mapping file, and the key
\* file of that key exists.
C25_StoredHaveKeys ==
    \A u \in DOMAIN contracts : u \in DOMAIN mapFile /\ mapFile[u] \in keyFiles

\* C30: a GET of a stored contract is answered with a whole document (or 404,
\* when it read before the creation finished), never with an error, also
\* while a write of the contract is in flight.
C30_ReadNeverFails ==
    (/\ resp.request.op = "get"
     /\ resp.code # 0
     /\ resp.request.uuid \in DOMAIN contracts)
    => (/\ resp.code \in {200, 404}
        /\ resp.code = 200 => resp.data[1].uuid = resp.request.uuid)

\* C29: the list answers 200 with one summary per stored contract (with a
\* participant filter: per stored contract whose participants include the
\* key), each carrying the document's createdAt and updatedAt, its number of
\* steps and its number of completed steps, the summaries ordered by the
\* documents' updatedAt, latest first.
C29_ListSummaries ==
    (resp.request.op = "list" /\ resp.code # 0) =>
        LET p == resp.request.participant
            wanted == {uuid \in DOMAIN contracts :
                          p = "" \/ p \in Range(contracts[uuid].participants)}
        IN  /\ resp.code = 200
            /\ Len(resp.data) = Cardinality(wanted)
            /\ {resp.data[i].uuid : i \in DOMAIN resp.data} = wanted
            /\ \A i \in DOMAIN resp.data :
                    LET contract == contracts[resp.data[i].uuid]
                    IN  /\ resp.data[i].createdAt = contract.createdAt
                        /\ resp.data[i].updatedAt = contract.updatedAt
                        /\ resp.data[i].stepCount = Len(contract.steps)
                        /\ resp.data[i].completedSteps =
                               Cardinality(CompletedSteps(contract))
            /\ \A i, j \in DOMAIN resp.data :
                    i < j => contracts[resp.data[i].uuid].updatedAt
                             >= contracts[resp.data[j].uuid].updatedAt

\* The direct request that carries the fields of a spell: its components,
\* its timestamp and its casterSignature as the endpoint signature
DirectOf(spell) ==
    LET c == spell.components
        op == CHOOSE o \in {"create", "update", "sign", "delete"} :
                  SpellName(o) = spell.spell
    IN  [Request(op, c.uuid, c.pubKey, spell.timestamp, c.userUUID,
                 spell.casterSignature) EXCEPT
            !.title = c.title, !.description = c.description,
            !.participants = c.participants, !.steps = c.steps, !.status = c.status,
            !.fields = c.fields, !.stepId = c.stepId,
            !.stepSignature = c.stepSignature]

\* What a handler takes from a request.  An update takes title, description,
\* steps and status from the body and nothing else of the contract's fields.
Taken(request) ==
    IF request.op = "update"
    THEN [request EXCEPT !.fields = @ \cap allowedFields, !.participants = <<>>]
    ELSE request

\* The direct path rejects the request whatever is stored: at the Gate, at
\* the validation of a creation, or at the checks of a sign-step.
DirectRejected(request) ==
    \/ GateFails(request)
    \/ /\ request.op = "create"
       /\ validateContract(Contract(NoUuid, request.title, request.description,
                                    request.participants, BuildSteps(request.steps),
                                    0, request.pubKey)) # ""
    \/ /\ request.op = "sign"
       /\ \A uuid \in DOMAIN contracts : SignRejection(contracts[uuid], request) # 0

\* The caller of the request is not authorized for the stored contract
Unauthorized(request) ==
    /\ request.uuid \in DOMAIN contracts
    /\ CASE request.op = "update" ->
                ~IsAuthorized(contracts[request.uuid], request.pubKey)
         [] request.op = "sign" ->
                ~IsParticipant(contracts[request.uuid], request.pubKey)
         [] request.op = "delete" ->
                ~IsCreator(contracts[request.uuid], request.pubKey)
         [] OTHER -> FALSE

C31_EveryRequestAnswered ==
    \A s \in Slots : (req[s].pc # "idle") ~> (req[s].pc = "idle")

\* The stored contract has a remote record id and a bound keypair
Replicated(uuid) ==
    /\ uuid \in DOMAIN contracts
    /\ contracts[uuid].bdoUuid # 0
    /\ getContractPubKey(uuid) # 0
    /\ HasKeys(getContractPubKey(uuid))

\* C32: a GET asks the remote exactly when the stored contract has a remote
\* record id and a bound keypair; the document it goes on with is the remote
\* document when the remote served the request and the local document
\* otherwise (the remote rejected, threw, or was not asked); the GET is
\* answered 404 exactly when there is no local document, and 200 with the
\* document it went on with otherwise.
C32_RemotePreferred ==
    [][\A s \in Slots :
        req[s].request.op = "get" =>
            LET uuid == req[s].request.uuid
                local == IF uuid \in DOMAIN contracts THEN <<contracts[uuid]>> ELSE <<>>
            IN  /\ (req[s].pc = "load" /\ Acts(s))
                    => IF Replicated(uuid)
                       THEN req'[s].pc = "fetch"
                       ELSE req'[s].pc = "handle" /\ req'[s].contract = local
                /\ (req[s].pc = "fetch" /\ Acts(s))
                    => /\ req'[s].pc = "handle"
                       /\ IF Owns(req[s].signer, local[1].bdoUuid) /\ faults' = faults
                          THEN req'[s].contract = remote[local[1].bdoUuid].bdo
                          ELSE req'[s].contract = local
                /\ Answers(s)
                    => IF local = <<>>
                       THEN resp'.code = 404
                       ELSE resp'.code = 200 /\ resp'.data = req[s].contract]_vars

\* C32 reached: a GET answered with the remote document, which is not the
\* local one, after a remote call has failed.
C32_Witness ==
    /\ resp.request.op = "get"
    /\ resp.code = 200
    /\ lastCall.op = "getBDO"
    /\ resp.data # <<contracts[resp.request.uuid]>>
    /\ faults < MaxWriteReadFaults

\* C33: no write of a stored contract mints a keypair or calls createUser,
\* and the remote record id of a stored contract, once set, stays the same.
C33_WritesReuseRecord ==
    [][/\ \A s \in Slots :
            (req[s].pc \in {"mint", "createUser"} /\ Acts(s))
                => req[s].contract[1].uuid \notin DOMAIN contracts
       /\ \A uuid \in DOMAIN contracts \cap DOMAIN contracts' :
            contracts[uuid].bdoUuid # 0
                => contracts'[uuid].bdoUuid = contracts[uuid].bdoUuid]_vars

\* C34: whenever no request is in flight, every binding made is in the
\* mapping file, which then equals the in-memory map: every stored contract
\* has its entry, and the entries are those of contractPubKeyMap.
C34_BindingsPersisted ==
    AllIdle =>
        /\ \A uuid \in DOMAIN contracts : uuid \in DOMAIN mapFile
        /\ \A uuid \in DOMAIN contractPubKeyMap :
                /\ uuid \in DOMAIN mapFile
                /\ mapFile[uuid] = contractPubKeyMap[uuid]

\* What getContractPubKey(uuid) gives after a restart: the caches are empty
\* and loadContractPubKeyMappings fills the map from the mapping file
LookupRestarted(uuid) == IF uuid \in DOMAIN mapFile THEN mapFile[uuid] ELSE 0

\* C35: the key of a contract is the same in this process and after a
\* restart, every cached binding is the persisted one, and every cached
\* keypair has its key file.
C35_CachesCoherent ==
    /\ \A uuid \in Uuids : getContractPubKey(uuid) = LookupRestarted(uuid)
    /\ \A uuid \in DOMAIN contractPubKeyMap :
            /\ uuid \in DOMAIN mapFile
            /\ mapFile[uuid] = contractPubKeyMap[uuid]
    /\ keyCache \subseteq keyFiles

\* The sign-step in slot s answers for a contract it has loaded
SignAnswers(s) ==
    /\ Handling(s, "sign")
    /\ req[s].contract # <<>>
    /\ Answers(s)

\* The request names a step the contract does not have
NoSuchStep(contract, request) ==
    request.stepId # <<>> /\ FindStep(contract, request.stepId) = 0

OutsideCreator(s) ==
    /\ Stored(s).creator = req[s].request.pubKey
    /\ req[s].request.pubKey \notin Range(Stored(s).participants)

\* C37: a valid create by a caller who is not among the participants goes on
\* to be stored with that caller as creator; an update and a delete by such a
\* creator are not answered 403; a sign-step by such a creator is answered
\* 403 and changes neither store; and in every stored contract of such a
\* creator whose step list was never replaced, no step holds a signature of
\* the creator and a step is completed exactly when every participant signed.
C37_OutsideCreator ==
    [][/\ \A s \in Slots :
            /\ (/\ Handling(s, "create")
                 /\ req[s].request.pubKey \notin Range(req[s].request.participants)
                 /\ Acts(s))
                => (/\ req'[s].pc = "mint"
                    /\ req'[s].contract[1].creator = req[s].request.pubKey
                    /\ resp' = NoResponse)
            /\ (/\ Serving(s, "update") /\ OutsideCreator(s) /\ Acts(s))
                => (/\ resp'.code \notin {401, 403, 404}
                    /\ resp'.code = 0 => Admitted(s)')
            /\ (/\ Serving(s, "delete") /\ OutsideCreator(s) /\ Acts(s))
                => (/\ resp'.code \notin {401, 403, 404}
                    /\ resp'.code = 0 => Admitted(s)')
            /\ (/\ Serving(s, "sign") /\ OutsideCreator(s) /\ Acts(s))
                => (/\ resp'.code = 403
                    /\ UNCHANGED <<contracts, remote>>)
       /\ \A u \in DOMAIN contracts' \ replaced' :
            LET contract == contracts'[u] IN
            contract.creator \notin Range(contract.participants) =>
                \A i \in DOMAIN contract.steps :
                    /\ ~IsSigned(contract.steps[i].signatures, contract.creator)
                    /\ contract.steps[i].completed
                         <=> EverySigned(contract, contract.steps[i])]_vars

\* C37 reached: the creator of a stored contract, who is not one of its
\* participants, has got 403 to a sign-step after both participants signed
\* and the step was completed.
C37_Witness ==
    /\ resp.code = 403
    /\ resp.request.op = "sign"
    /\ resp.request.uuid \in DOMAIN contracts
    /\ LET contract == contracts[resp.request.uuid] IN
        /\ contract.creator = resp.request.pubKey
        /\ resp.request.pubKey \notin Range(contract.participants)
        /\ \A i \in DOMAIN contract.steps : contract.steps[i].completed

\* The stored step stepId of contract uuid holds a signature of p
HoldsSignature(store, uuid, stepId, p) ==
    /\ uuid \in DOMAIN store
    /\ FindStep(store[uuid], stepId) # 0
    /\ IsSigned(store[uuid].steps[FindStep(store[uuid], stepId)].signatures, p)

StepCompleted(store, request) ==
    /\ request.uuid \in DOMAIN store
    /\ FindStep(store[request.uuid], request.stepId) # 0
    /\ store[request.uuid].steps[FindStep(store[request.uuid], request.stepId)].completed

\* C39: an answer to a sign-step reports magicTriggered only when the step
\* it names was not completed before the answering step and is completed
\* after it; so over any run at most one answer per step reports it.
C39_TriggeredOnce ==
    [][(/\ resp' # resp
        /\ resp'.request.op = "sign"
        /\ resp'.magicTriggered)
       => (/\ ~StepCompleted(contracts, resp'.request)
           /\ StepCompleted(contracts', resp'.request))]_vars

\* The record is the one a verified sign-step of p for step stepId of
\* contract uuid writes
BoundToSlot(record, p, uuid, stepId) ==
    /\ record.pubKey = p
    /\ record.message = StepMessage(record.timestamp, UserUUID(p), uuid, stepId)
    /\ verifySignature(record.signature, record.message, p)

\* C40: in every stored contract whose step list was never replaced by an
\* update, every non-null signature entry of participant p in step S carries
\* pubKey p, the message timestamp + userUUID of p + contract uuid + S.id
\* with the record's own timestamp, and a signature that verifies under p
\* for that message.
C40_SignatureBoundToSlot ==
    \A u \in Kept : \A S \in StepsOf(u) : \A p \in DOMAIN S.signatures :
        IsSigned(S.signatures, p) => BoundToSlot(S.signatures[p][1], p, u, S.id)

\* C40 reached: a sign-step is answered 200, both participants' records are
\* stored in the step it names and the caller's record holds its signature.
C40_Witness ==
    /\ resp.code = 200
    /\ resp.request.op = "sign"
    /\ resp.request.uuid \in Kept
    /\ \E S \in StepsOf(resp.request.uuid) :
        /\ S.id = resp.request.stepId
        /\ \A p \in Range(Participants) : IsSigned(S.signatures, p)
        /\ S.signatures[resp.request.pubKey][1].signature = resp.request.stepSignature

====
